---------------------------- MODULE Spec2Model ----------------------------
(***************************************************************************)
(* Model of the ChemTRAC risk pipeline (src/scripts/run_pipeline.py,       *)
(* src/scripts/build_map.py, src/scripts/ingest_chemtrac.py,               *)
(* src/run_all.py).                                                        *)
(*                                                                         *)
(* Representation.                                                         *)
(*  - A Python str is a sequence of one-character strings.                 *)
(*  - Floats are fixed-point integers; the unit is named where a value is  *)
(*    introduced (toxicity scores are whole numbers in the source).        *)
(*  - A file is either Absent or the table that was written to it.         *)
(***************************************************************************)
EXTENDS Integers, Sequences, FiniteSets, TLC

VARIABLES
  pc,                  \* position of the computation being modelled
  chem_name,           \* r["chemical_name"] as read from the row
  toxicity_score,      \* result of the toxicity lookup
  lat, lon,            \* facility coordinates (1e-4 degree)
  proximity_multiplier, \* result of calculate_proximity_risk (1e-3)
  loc_weight,          \* loc["weight"] of one sensitive location (1e-1)
  loc_dist,            \* distances of two points to that location (m)
  loc_contribution,    \* the location's contribution at each of them (1e-3)
  fac_base,            \* the facility table before lines 327-336
  raw_risk,            \* fac["risk_score"] before the final rescaling
  risk_score,          \* fac["risk_score"] after it (1e-2)
  raw_csv,             \* data/raw/Chemtrac-Data-2024.csv
  rows_clean,          \* data/processed/chemtrac_rows_clean.csv
  fac_risk,            \* data/processed/facilities_with_risk.csv
  fac_anom,            \* data/processed/facilities_with_risk_and_anomaly.csv
  facilities_json,     \* web/public/data/facilities.json
  map_html,            \* output/map.html
  error,               \* the exception that ended the last call, if any
  call,                \* the entry point called last and its stages still to run
  signals,             \* the four vote vectors of the last anomaly run
  fitted               \* what the seeded forests returned, per table fitted

fileVars == <<rows_clean, fac_risk, fac_anom, facilities_json, map_html>>
pipeVars == <<raw_csv, rows_clean, fac_risk, fac_anom, facilities_json,
              map_html, error, call, signals, fitted>>

vars == <<pc, chem_name, toxicity_score, lat, lon, proximity_multiplier,
          loc_weight, loc_dist, loc_contribution, fac_base, raw_risk,
          risk_score, pipeVars>>

toxVars   == <<chem_name, toxicity_score>>
proxVars  == <<lat, lon, proximity_multiplier>>
scaleVars == <<raw_risk, risk_score>>
decayVars == <<loc_weight, loc_dist, loc_contribution>>

\* A file: absent, or present with the table last written to it.
Absent == [exists |-> FALSE, data |-> <<>>]
File(table) == [exists |-> TRUE, data |-> table]

NoError == [type |-> "none", artifact |-> "none"]
NoCall == [name |-> "none", todo |-> <<>>]
\* No forest has been fitted yet.
NoFits == <<>>
NoSignals == [iso |-> <<>>, industry |-> <<>>, extreme |-> <<>>, combo |-> <<>>]

\* The variables of a computation that is not running hold these values.
ToxIdle   == chem_name = <<>> /\ toxicity_score = 0
ProxIdle  == lat = 0 /\ lon = 0 /\ proximity_multiplier = 0
ScaleIdle == raw_risk = <<>> /\ risk_score = <<>>
DecayIdle ==
  loc_weight = 0 /\ loc_dist = <<>> /\ loc_contribution = <<>>
AmplifyIdle == fac_base = <<>>
PipeIdle  ==
  /\ raw_csv = Absent /\ rows_clean = Absent /\ fac_risk = Absent
  /\ fac_anom = Absent /\ facilities_json = Absent /\ map_html = Absent
  /\ error = NoError /\ call = NoCall /\ signals = NoSignals
  /\ fitted = NoFits

---------------------------------------------------------------------------
(* Generic helpers                                                         *)

Max2(a, b) == IF a >= b THEN a ELSE b
Min2(a, b) == IF a <= b THEN a ELSE b

SetMax(S) == CHOOSE x \in S : \A y \in S : y <= x
SetMin(S) == CHOOSE x \in S : \A y \in S : x <= y

---------------------------------------------------------------------------
(* TOXICITY SCORING SYSTEM                                                 *)

\* The knowledge base in dict insertion order (Python dicts iterate in
\* insertion order); scores are the source's floats, all whole numbers.
CHEMICAL_TOXICITY ==
  <<
    [key |-> <<"m", "e", "r", "c", "u", "r", "y">>, score |-> 100],
    [key |-> <<"l", "e", "a", "d">>, score |-> 95],
    [key |-> <<"f", "o", "r", "m", "a", "l", "d", "e", "h", "y", "d", "e">>, score |-> 92],
    [key |-> <<"h", "e", "x", "a", "v", "a", "l", "e", "n", "t", " ", "c", "h", "r", "o", "m", "i", "u", "m">>, score |-> 90],
    [key |-> <<"c", "h", "r", "o", "m", "i", "u", "m", " ", "(", "v", "i", ")">>, score |-> 90],
    [key |-> <<"b", "e", "n", "z", "e", "n", "e">>, score |-> 88],
    [key |-> <<"c", "a", "d", "m", "i", "u", "m">>, score |-> 87],
    [key |-> <<"t", "e", "t", "r", "a", "c", "h", "l", "o", "r", "o", "e", "t", "h", "y", "l", "e", "n", "e">>, score |-> 82],
    [key |-> <<"p", "e", "r", "c", "h", "l", "o", "r", "o", "e", "t", "h", "y", "l", "e", "n", "e">>, score |-> 82],
    [key |-> <<"t", "r", "i", "c", "h", "l", "o", "r", "o", "e", "t", "h", "y", "l", "e", "n", "e">>, score |-> 80],
    [key |-> <<"d", "i", "c", "h", "l", "o", "r", "o", "m", "e", "t", "h", "a", "n", "e">>, score |-> 78],
    [key |-> <<"m", "e", "t", "h", "y", "l", "e", "n", "e", " ", "c", "h", "l", "o", "r", "i", "d", "e">>, score |-> 78],
    [key |-> <<"a", "r", "s", "e", "n", "i", "c">>, score |-> 95],
    [key |-> <<"n", "i", "c", "k", "e", "l">>, score |-> 75],
    [key |-> <<"s", "t", "y", "r", "e", "n", "e">>, score |-> 72],
    [key |-> <<"b", "e", "n", "z", "o", "(", "a", ")", "p", "y", "r", "e", "n", "e">>, score |-> 85],
    [key |-> <<"p", "o", "l", "y", "c", "y", "c", "l", "i", "c", " ", "a", "r", "o", "m", "a", "t", "i", "c", " ", "h", "y", "d", "r", "o", "c", "a", "r", "b", "o", "n", "s">>, score |-> 83],
    [key |-> <<"p", "a", "h", "s">>, score |-> 83],
    [key |-> <<"d", "i", "o", "x", "i", "n", "s">>, score |-> 90],
    [key |-> <<"p", "c", "b", "s">>, score |-> 85],
    [key |-> <<"n", "i", "t", "r", "o", "g", "e", "n", " ", "o", "x", "i", "d", "e", "s">>, score |-> 68],
    [key |-> <<"n", "o", "x">>, score |-> 68],
    [key |-> <<"s", "u", "l", "f", "u", "r", " ", "d", "i", "o", "x", "i", "d", "e">>, score |-> 65],
    [key |-> <<"s", "o", "2">>, score |-> 65],
    [key |-> <<"p", "a", "r", "t", "i", "c", "u", "l", "a", "t", "e", " ", "m", "a", "t", "t", "e", "r">>, score |-> 70],
    [key |-> <<"p", "m", "2", ".", "5">>, score |-> 74],
    [key |-> <<"p", "m", "1", "0">>, score |-> 66],
    [key |-> <<"a", "m", "m", "o", "n", "i", "a">>, score |-> 62],
    [key |-> <<"v", "o", "l", "a", "t", "i", "l", "e", " ", "o", "r", "g", "a", "n", "i", "c", " ", "c", "o", "m", "p", "o", "u", "n", "d", "s">>, score |-> 58],
    [key |-> <<"v", "o", "c", "s">>, score |-> 58],
    [key |-> <<"t", "o", "l", "u", "e", "n", "e">>, score |-> 60],
    [key |-> <<"x", "y", "l", "e", "n", "e">>, score |-> 58],
    [key |-> <<"e", "t", "h", "y", "l", "b", "e", "n", "z", "e", "n", "e">>, score |-> 56],
    [key |-> <<"a", "c", "e", "t", "o", "n", "e">>, score |-> 45],
    [key |-> <<"m", "e", "t", "h", "a", "n", "o", "l">>, score |-> 50],
    [key |-> <<"c", "a", "r", "b", "o", "n", " ", "m", "o", "n", "o", "x", "i", "d", "e">>, score |-> 52],
    [key |-> <<"c", "o">>, score |-> 52],
    [key |-> <<"h", "y", "d", "r", "o", "g", "e", "n", " ", "c", "h", "l", "o", "r", "i", "d", "e">>, score |-> 55],
    [key |-> <<"h", "c", "l">>, score |-> 55]
  >>

\* Default for unknown chemicals (toxicity_score = 30.0).
DefaultToxicity == 30

LowerAlphabet ==
  <<"a","b","c","d","e","f","g","h","i","j","k","l","m",
    "n","o","p","q","r","s","t","u","v","w","x","y","z">>
UpperAlphabet ==
  <<"A","B","C","D","E","F","G","H","I","J","K","L","M",
    "N","O","P","Q","R","S","T","U","V","W","X","Y","Z">>
Whitespace == {" ", "\t", "\n"}

\* str.lower(): every cased character is mapped to its lower-case form.
LowerChar(c) ==
  IF \E i \in 1..Len(UpperAlphabet) : UpperAlphabet[i] = c
  THEN LowerAlphabet[CHOOSE i \in 1..Len(UpperAlphabet) : UpperAlphabet[i] = c]
  ELSE c
Lower(s) == [i \in 1..Len(s) |-> LowerChar(s[i])]

\* str.strip(): leading and trailing whitespace is removed.
RECURSIVE LStrip(_)
LStrip(s) ==
  IF s # <<>> /\ Head(s) \in Whitespace THEN LStrip(Tail(s)) ELSE s
RECURSIVE RStrip(_)
RStrip(s) ==
  IF s # <<>> /\ s[Len(s)] \in Whitespace
  THEN RStrip(SubSeq(s, 1, Len(s) - 1)) ELSE s
Strip(s) == RStrip(LStrip(s))

\* chem_name = str(r["chemical_name"]).lower().strip()
NormalizeName(s) == Strip(Lower(s))

\* Python's `key in chem_name` on strings: key occurs as a contiguous run.
IsSubstring(key, s) ==
  \E i \in 0..(Len(s) - Len(key)) :
    \A j \in 1..Len(key) : s[i + j] = key[j]

\* The lookup loop of run_risk_model / export_web_json:
\*     toxicity_score = 30.0
\*     for key, score in CHEMICAL_TOXICITY.items():
\*         if key in chem_name:
\*             toxicity_score = max(toxicity_score, score)
\*             break
\* LookupFromMaxAll is the loop without its break.
RECURSIVE LookupFromMaxAll(_, _, _)
LookupFromMaxAll(name, i, acc) ==
  IF i > Len(CHEMICAL_TOXICITY) THEN acc
  ELSE IF IsSubstring(CHEMICAL_TOXICITY[i].key, name)
       THEN LookupFromMaxAll(name, i + 1, Max2(acc, CHEMICAL_TOXICITY[i].score))
       ELSE LookupFromMaxAll(name, i + 1, acc)

RECURSIVE LookupFrom(_, _, _)
LookupFrom(name, i, acc) ==
  IF i > Len(CHEMICAL_TOXICITY) THEN acc
  ELSE IF IsSubstring(CHEMICAL_TOXICITY[i].key, name)
       THEN Max2(acc, CHEMICAL_TOXICITY[i].score)
       ELSE LookupFrom(name, i + 1, acc)

\* The lookup without a floor: the result starts at 0 instead of 30.
ToxicityNoFloor(raw_name) == LookupFrom(NormalizeName(raw_name), 1, 0)

ToxicityMaxAll(raw_name) ==
  LookupFromMaxAll(NormalizeName(raw_name), 1, DefaultToxicity)

ToxicityOf(raw_name) == LookupFrom(NormalizeName(raw_name), 1, DefaultToxicity)

---------------------------------------------------------------------------
(* Chemical names fed to the lookup                                        *)

\* Largest number of blanks put before and after a name.
MaxPad == 1

\* Names that contain no knowledge-base key ("nan" is str() of a missing
\* chemical name, <<>> the empty string).
OtherWords ==
  { <<"z","i","n","c">>, <<"n","a","n">>, <<"w","a","t","e","r">>, <<>>,
    <<"s","u","l","p","h","u","r","i","c"," ","a","c","i","d">> }

KeyWords == { CHEMICAL_TOXICITY[i].key : i \in 1..Len(CHEMICAL_TOXICITY) }
Words == KeyWords \cup OtherWords

UpperChar(c) ==
  IF \E i \in 1..Len(LowerAlphabet) : LowerAlphabet[i] = c
  THEN UpperAlphabet[CHOOSE i \in 1..Len(LowerAlphabet) : LowerAlphabet[i] = c]
  ELSE c
Upper(s) == [i \in 1..Len(s) |-> UpperChar(s[i])]

Blanks(k) == [i \in 1..k |-> " "]
Padded(s, k) == Blanks(k) \o s \o Blanks(k)

\* One word, or two words separated by a blank; as reported or in capitals;
\* with 0..MaxPad blanks around it.
BaseNames == Words \cup { w1 \o <<" ">> \o w2 : w1 \in Words, w2 \in Words }
ChemNames ==
  { Padded(s, k) : s \in BaseNames \cup { Upper(b) : b \in BaseNames },
                   k \in 0..MaxPad }

InitTox ==
  /\ pc = "tox_input"
  /\ chem_name \in ChemNames
  /\ toxicity_score = 0
  /\ ProxIdle /\ ScaleIdle /\ PipeIdle
  /\ DecayIdle /\ AmplifyIdle

\* run_risk_model lines 220-227 for one row.
ResolveToxicity ==
  /\ pc = "tox_input"
  /\ toxicity_score' = ToxicityOf(chem_name)
  /\ pc' = "tox_done"
  /\ UNCHANGED <<chem_name, proxVars, scaleVars, decayVars, fac_base,
               pipeVars>>

NextTox == ResolveToxicity

SpecTox == InitTox /\ [][NextTox]_vars

\* Indices of the knowledge-base keys occurring in the normalized name.
MatchingKeys(raw_name) ==
  { i \in 1..Len(CHEMICAL_TOXICITY) :
      IsSubstring(CHEMICAL_TOXICITY[i].key, NormalizeName(raw_name)) }

\* C1: when the normalized name contains two or more keys, the resolved
\* score is the score of the first matching key in table order, whatever the
\* scores of the later matching keys.
C1_FirstMatchWins ==
  pc = "tox_done" =>
    LET M == MatchingKeys(chem_name) IN
      Cardinality(M) >= 2 =>
        toxicity_score = CHEMICAL_TOXICITY[SetMin(M)].score

\* A name has been resolved in which a later matching key scores higher
\* than the first one, and the first one's score was returned.
C1_Witness ==
  /\ pc = "tox_done"
  /\ LET M == MatchingKeys(chem_name) IN
       /\ Cardinality(M) >= 2
       /\ \E j \in M : CHEMICAL_TOXICITY[j].score
                         > CHEMICAL_TOXICITY[SetMin(M)].score
       /\ toxicity_score = CHEMICAL_TOXICITY[SetMin(M)].score

\* C2: a name containing no key resolves to exactly 30, and every resolved
\* score lies in [30, 100].
C2_DefaultAndRange ==
  pc = "tox_done" =>
    /\ (MatchingKeys(chem_name) = {} => toxicity_score = 30)
    /\ toxicity_score >= 30 /\ toxicity_score <= 100

\* A non-empty name without any key has been resolved to the default.
C2_Witness ==
  /\ pc = "tox_done"
  /\ NormalizeName(chem_name) # <<>>
  /\ MatchingKeys(chem_name) = {}
  /\ toxicity_score = 30

---------------------------------------------------------------------------
(* PROXIMITY ANALYSIS                                                      *)
(*                                                                         *)
(* Units: latitude/longitude in 1e-4 degree, angles in 1e-7 rad, cosines   *)
(* in 1e-4, distances in metres, location weights in tenths, risk          *)
(* contributions and multipliers in thousandths.  The angle arithmetic is  *)
(* exact for coordinate differences below 0.34 degree, which covers the    *)
(* city the location list describes.                                       *)

SENSITIVE_LOCATIONS ==
  << [lat |-> 436591, lon |-> -793879, type |-> "hospital",    weight |-> 25],
     [lat |-> 436566, lon |-> -793900, type |-> "hospital",    weight |-> 30],
     [lat |-> 437315, lon |-> -794558, type |-> "hospital",    weight |-> 25],
     [lat |-> 436629, lon |-> -793957, type |-> "school",      weight |-> 22],
     [lat |-> 437735, lon |-> -795019, type |-> "school",      weight |-> 22],
     [lat |-> 437843, lon |-> -791864, type |-> "school",      weight |-> 20],
     [lat |-> 436426, lon |-> -793871, type |-> "residential", weight |-> 18],
     [lat |-> 437615, lon |-> -794111, type |-> "residential", weight |-> 15],
     [lat |-> 437731, lon |-> -792578, type |-> "residential", weight |-> 15] >>

\* Earth radius in km.
R == 6371

\* np.radians: degrees * pi/180; 1e-4 degree is 17.453293 units of 1e-7 rad.
Radians(d) == d * 17 + ((d * 453) \div 1000) + ((d * 293) \div 1000000)

\* np.sin for a small angle x (1e-7 rad): x - x^3/6.
Sin7(x) == x - ((((x * x) \div 10000000) * x) \div 60000000)

\* np.arcsin for a small argument y (1e-7): y + y^3/6.
Arcsin7(y) == y + ((((y * y) \div 10000000) * y) \div 60000000)

\* np.cos (result in 1e-4) of an angle x (1e-7 rad), |x| <= pi/2:
\* 1 - x^2/2 + x^4/24 - x^6/720 + x^8/40320.
Cos4(x) ==
  LET x1 == x \div 1000
      x2 == (x1 * x1) \div 10000
      x4 == (x2 * x2) \div 10000
      x6 == (x4 * x2) \div 10000
      x8 == (x4 * x4) \div 10000
  IN  10000 - (x2 \div 2) + (x4 \div 24) - (x6 \div 720) + (x8 \div 40320)

\* np.sqrt on integers: the largest r with r*r <= n (n < 2^31).
RECURSIVE SqrtSearch(_, _, _)
SqrtSearch(n, lo, hi) ==
  IF lo >= hi THEN lo
  ELSE LET mid == (lo + hi + 1) \div 2 IN
         IF mid * mid <= n THEN SqrtSearch(n, mid, hi)
         ELSE SqrtSearch(n, lo, mid - 1)
Sqrt(n) == SqrtSearch(n, 0, 46340)

\* haversine_distance, in metres.
haversine_distance(lat1, lon1, lat2, lon2) ==
  LET rlat1 == Radians(lat1)
      rlon1 == Radians(lon1)
      rlat2 == Radians(lat2)
      rlon2 == Radians(lon2)
      dlat  == rlat2 - rlat1
      dlon  == rlon2 - rlon1
      slat  == Sin7(dlat \div 2)
      slon  == Sin7(dlon \div 2)
      cc    == (Cos4(rlat1) * Cos4(rlat2)) \div 10000
      slon2 == slon * slon
      a     == slat * slat
               + (slon2 \div 10000) * cc + (((slon2 % 10000) * cc) \div 10000)
      c     == 2 * Arcsin7(Sqrt(a))
  IN  (R * c) \div 10000

\* The distance decay of calculate_proximity_risk (lines 146-151).
\* RiskContributionFlat drops the (1.0 - dist) decay of the first branch.
RiskContributionFlat(weight, dist) ==
  IF dist < 1000 THEN weight * 100
  ELSE IF dist < 5000 THEN (weight * 3 * (5000 - dist)) \div 400
  ELSE 0

RiskContribution(weight, dist) ==
  IF dist < 1000 THEN (weight * (1000 - dist)) \div 10
  ELSE IF dist < 5000 THEN (weight * 3 * (5000 - dist)) \div 400
  ELSE 0

\* The loop of calculate_proximity_risk from location i on.
\* ProximityLoopSum adds the boosts of the locations up instead of keeping
\* the largest.
RECURSIVE ProximityLoopSum(_, _, _, _)
ProximityLoopSum(la, lo, i, max_risk) ==
  IF i > Len(SENSITIVE_LOCATIONS) THEN max_risk
  ELSE LET loc  == SENSITIVE_LOCATIONS[i]
           dist == haversine_distance(la, lo, loc.lat, loc.lon)
           risk_contribution == RiskContribution(loc.weight, dist)
       IN  ProximityLoopSum(la, lo, i + 1,
                            max_risk + ((risk_contribution * 4) \div 10))

RECURSIVE ProximityLoop(_, _, _, _)
ProximityLoop(la, lo, i, max_risk) ==
  IF i > Len(SENSITIVE_LOCATIONS) THEN max_risk
  ELSE LET loc  == SENSITIVE_LOCATIONS[i]
           dist == haversine_distance(la, lo, loc.lat, loc.lon)
           risk_contribution == RiskContribution(loc.weight, dist)
       IN  ProximityLoop(la, lo, i + 1,
                         Max2(max_risk, 1000 + ((risk_contribution * 4) \div 10)))

calculate_proximity_risk_sum(la, lo) == ProximityLoopSum(la, lo, 1, 1000)

calculate_proximity_risk(la, lo) == ProximityLoop(la, lo, 1, 1000)

---------------------------------------------------------------------------
(* Coordinates fed to calculate_proximity_risk                             *)

\* Half-width, in grid steps of 0.002 degree, of the square of points laid
\* around every sensitive location.
GridRadius == 2

LocationIndices == 1..Len(SENSITIVE_LOCATIONS)

\* The sensitive locations themselves, a fine grid around each of them, and
\* a coarse grid (0.03 degree) over the whole city.
LatGrid ==
  { SENSITIVE_LOCATIONS[i].lat + 20 * k :
      i \in LocationIndices, k \in (-GridRadius)..GridRadius }
  \cup { 435800 + 300 * k : k \in 0..8 }
LonGrid ==
  { SENSITIVE_LOCATIONS[i].lon + 20 * k :
      i \in LocationIndices, k \in (-GridRadius)..GridRadius }
  \cup { -795200 + 300 * k : k \in 0..11 }

InitProx ==
  /\ pc = "prox_input"
  /\ lat \in LatGrid
  /\ lon \in LonGrid
  /\ proximity_multiplier = 0
  /\ ToxIdle /\ ScaleIdle /\ PipeIdle
  /\ DecayIdle /\ AmplifyIdle

\* proximity_multiplier = calculate_proximity_risk(lat, lon)
ComputeProximity ==
  /\ pc = "prox_input"
  /\ proximity_multiplier' = calculate_proximity_risk(lat, lon)
  /\ pc' = "prox_done"
  /\ UNCHANGED <<lat, lon, toxVars, scaleVars, decayVars, fac_base,
               pipeVars>>

NextProx == ComputeProximity

SpecProx == InitProx /\ [][NextProx]_vars

\* Distance from the current coordinates to sensitive location i.
DistTo(i) ==
  haversine_distance(lat, lon, SENSITIVE_LOCATIONS[i].lat,
                     SENSITIVE_LOCATIONS[i].lon)

C5_MaxNotSum ==
  pc = "prox_done" =>
    LET boosts == { (RiskContribution(SENSITIVE_LOCATIONS[i].weight,
                                      DistTo(i)) * 4) \div 10 :
                      i \in LocationIndices }
    IN  /\ proximity_multiplier >= 1000
        /\ (\A i \in LocationIndices : DistTo(i) >= 5000)
             => proximity_multiplier = 1000
        /\ proximity_multiplier = 1000 + SetMax(boosts)

\* The multiplier has been computed at a point where two locations are both
\* within 5 km, so that both contribute a boost.
C5_Witness ==
  /\ pc = "prox_done"
  /\ proximity_multiplier > 1000
  /\ \E i, j \in LocationIndices :
       /\ i # j
       /\ DistTo(i) < 5000 /\ DistTo(j) < 5000

---------------------------------------------------------------------------
(* FINAL RESCALING (run_risk_model, "Normalize to 0-100 scale")            *)
(*                                                                         *)
(*     fac["risk_score"] = ((x - x.min()) /                                *)
(*                          (x.max() - x.min() + 1e-9) * 100).round(2)     *)
(*                                                                         *)
(* Raw values are integers in a unit of k * 1e-9, so the guard 1e-9 is     *)
(* 1/k of a unit; results are in hundredths.  With n = x - min and         *)
(* d = max - min the exact value is 10000*n*k / (d*k + 1) hundredths.      *)
(* The comparisons below are that quotient's comparisons with half-integers*)
(* rearranged so that no product leaves 32 bits (n, d <= 100000).          *)

CeilDiv(a, b)  == -((-a) \div b)

\* a/2 <= 10000*n*k/(d*k+1), i.e. a*(d*k+1) <= 20000*n*k.
HalfStepsLeq(a, n, d, k) == CeilDiv(a, k) <= 20000 * n - a * d
\* a/2 >= 10000*n*k/(d*k+1).
HalfStepsGeq(a, n, d, k) == (a \div k) >= 20000 * n - a * d

\* The largest a in lo..hi with a/2 <= the exact value.
RECURSIVE HalfStepsSearch(_, _, _, _, _)
HalfStepsSearch(lo, hi, n, d, k) ==
  IF lo >= hi THEN lo
  ELSE LET mid == (lo + hi + 1) \div 2 IN
         IF HalfStepsLeq(mid, n, d, k) THEN HalfStepsSearch(mid, hi, n, d, k)
         ELSE HalfStepsSearch(lo, mid - 1, n, d, k)

\* ((n / (d + 1e-9)) * 100).round(2) in hundredths; numpy rounds halves to
\* the even neighbour.
ScaleValue(n, d, k) ==
  LET a == HalfStepsSearch(0, 20000, n, d, k)
      q == a \div 2
  IN  IF a % 2 = 0 THEN q
      ELSE IF HalfStepsGeq(a, n, d, k) /\ q % 2 = 0 THEN q
      ELSE q + 1

SeqMin(s) == SetMin({ s[i] : i \in 1..Len(s) })
SeqMax(s) == SetMax({ s[i] : i \in 1..Len(s) })

\* MinMaxScaleNoShift forgets to subtract the minimum.
MinMaxScaleNoShift(x, k) ==
  [i \in 1..Len(x) |-> ScaleValue(x[i], SeqMax(x) - SeqMin(x), k)]

MinMaxScale(x, k) ==
  [i \in 1..Len(x) |-> ScaleValue(x[i] - SeqMin(x), SeqMax(x) - SeqMin(x), k)]

---------------------------------------------------------------------------
(* Raw risk vectors fed to the rescaling                                   *)

\* Largest facility population whose raw scores are enumerated.
MaxPopulation == 3

\* Raw scores in units of 1e-9: ties, neighbours one guard apart, and
\* values 2e-5 and more apart.
RawScores == { -20000, -1, 0, 1, 2, 9999, 19999, 20000, 49999, 50000 }

RawVectors ==
  UNION { [1..n -> RawScores] : n \in 1..MaxPopulation }

InitScale ==
  /\ pc = "scale_input"
  /\ raw_risk \in RawVectors
  /\ risk_score = <<>>
  /\ ToxIdle /\ ProxIdle /\ PipeIdle
  /\ DecayIdle /\ AmplifyIdle

\* run_risk_model lines 333-336 on a population with the given raw scores.
Rescale ==
  /\ pc = "scale_input"
  /\ risk_score' = MinMaxScale(raw_risk, 1)
  /\ pc' = "scale_done"
  /\ UNCHANGED <<raw_risk, toxVars, proxVars, decayVars, fac_base,
               pipeVars>>

NextScale == Rescale

SpecScale == InitScale /\ [][NextScale]_vars

Population == 1..Len(raw_risk)
PairwiseDistinct ==
  \A i, j \in Population : i # j => raw_risk[i] # raw_risk[j]
InRange == \A i \in Population : risk_score[i] >= 0 /\ risk_score[i] <= 10000

\* C3 as stated: every score is in [0,100]; with two or more pairwise
\* distinct raw scores exactly one facility, the one with the largest raw
\* score, attains 100 and exactly one, the one with the smallest, attains 0.
C3_ExactlyOneExtreme ==
  pc = "scale_done" =>
    /\ InRange
    /\ (Len(raw_risk) >= 2 /\ PairwiseDistinct) =>
         /\ \A i \in Population :
              risk_score[i] = 10000 <=> raw_risk[i] = SeqMax(raw_risk)
         /\ \A i \in Population :
              risk_score[i] = 0 <=> raw_risk[i] = SeqMin(raw_risk)

\* C3 (amended): every score is in [0,100]; with two or more pairwise
\* distinct raw scores the facility with the smallest raw score attains 0,
\* no facility scores above the one with the largest raw score, and that one
\* attains 100 when the raw scores span at least 2e-5.
C3_RangeAndExtremes ==
  pc = "scale_done" =>
    /\ InRange
    /\ (Len(raw_risk) >= 2 /\ PairwiseDistinct) =>
         \A i \in Population :
           /\ raw_risk[i] = SeqMin(raw_risk) => risk_score[i] = 0
           /\ raw_risk[i] = SeqMax(raw_risk) =>
                /\ \A j \in Population : risk_score[j] <= risk_score[i]
                /\ SeqMax(raw_risk) - SeqMin(raw_risk) >= 20000
                     => risk_score[i] = 10000

\* Three distinct raw scores spanning more than 2e-5 have been rescaled:
\* the largest scored 100, the smallest 0.
C3_Witness ==
  /\ pc = "scale_done"
  /\ Len(raw_risk) = 3 /\ PairwiseDistinct
  /\ SeqMax(raw_risk) - SeqMin(raw_risk) >= 20000
  /\ \E i, j \in Population :
       /\ raw_risk[i] = SeqMax(raw_risk) /\ risk_score[i] = 10000
       /\ raw_risk[j] = SeqMin(raw_risk) /\ risk_score[j] = 0

---------------------------------------------------------------------------
(* ADVANCED RISK MODEL: numeric helpers                                    *)

\* Value of a missing cell (pandas NaN), also what an empty CSV field reads
\* back as.
NaN == "NaN"

RECURSIVE Pow2(_)
Pow2(k) == IF k = 0 THEN 1 ELSE 2 * Pow2(k - 1)

\* floor(log2(n)) for n >= 1.
RECURSIVE Log2Floor(_)
Log2Floor(n) == IF n < 2 THEN 0 ELSE 1 + Log2Floor(n \div 2)

\* Natural logarithm of an integer n >= 1, in 1e-4:
\* n = m * 2^k with 1 <= m < 2, ln n = k ln 2 + 2 atanh((m-1)/(m+1)).
Ln(n) ==
  LET k  == Log2Floor(n)
      m  == IF k >= 16 THEN n \div Pow2(k - 16) ELSE n * Pow2(16 - k)
      z  == ((m - 65536) * 10000) \div (m + 65536)
      z2 == (z * z) \div 10000
      z4 == (z2 * z2) \div 10000
      z6 == (z4 * z2) \div 10000
      z8 == (z4 * z4) \div 10000
      s  == 10000 + (z2 \div 3) + (z4 \div 5) + (z6 \div 7) + (z8 \div 9)
  IN  ((k * 69315) \div 10) + ((2 * z * s) \div 10000)

\* np.log1p of v/unit (v >= 0), in 1e-4.
Log1p(v, unit) == Ln(unit + v) - Ln(unit)

\* Ascending insertion into a sorted sequence, and sorting.
RECURSIVE InsertSorted(_, _)
InsertSorted(s, x) ==
  IF s = <<>> THEN <<x>>
  ELSE IF x < Head(s) THEN <<x>> \o s
  ELSE <<Head(s)>> \o InsertSorted(Tail(s), x)
RECURSIVE SortAscending(_)
SortAscending(s) == IF s = <<>> THEN <<>> ELSE InsertSorted(SortAscending(Tail(s)), Head(s))

\* Four times np.percentile(x, 25 * p) (linear interpolation) of a sorted
\* sequence: the virtual index is p*(n-1)/4.
Percentile4(sorted, p) ==
  LET pos == p * (Len(sorted) - 1)
      f   == pos \div 4
      r   == pos % 4
  IN  IF r = 0 THEN 4 * sorted[f + 1]
      ELSE 4 * sorted[f + 1] + r * (sorted[f + 2] - sorted[f + 1])

\* RobustScaler().fit_transform on one column (values in 1/unit), result in
\* 1e-3: (x - median) / (q75 - q25); a zero range is replaced by 1.0.
RobustScale(x, unit) ==
  LET sorted == SortAscending(x)
      med4   == Percentile4(sorted, 2)
      iqr4   == Percentile4(sorted, 3) - Percentile4(sorted, 1)
  IN  [i \in 1..Len(x) |->
         IF iqr4 = 0 THEN ((4 * x[i] - med4) * 1000) \div (4 * unit)
         ELSE ((4 * x[i] - med4) * 1000) \div iqr4]

---------------------------------------------------------------------------
(* ADVANCED RISK MODEL: per-facility aggregation                           *)
(*                                                                         *)
(* Units: release quantities in kg; exposure weights in hundredths, use    *)
(* weights in tenths, so toxicity_weighted_exposure is in 1e-5 kg; log     *)
(* features in 1e-4; scaled features, base_risk and the raw risk in 1e-3.  *)

EXPOSURE_WEIGHTS ==
  [air |-> 100, water |-> 95, land |-> 70, disposal |-> 30, recycling |-> 15]

USE_WEIGHTS == [manufactured |-> 10, processed |-> 8, other |-> 5]

\* use_weight when no use flag is set (0.4).
DefaultUseWeight == 4

HeavyMetals ==
  { <<"m","e","r","c","u","r","y">>, <<"l","e","a","d">>,
    <<"c","a","d","m","i","u","m">>, <<"c","h","r","o","m","i","u","m">>,
    <<"a","r","s","e","n","i","c">> }

\* exposure_paths of a row: the pathways with a positive quantity.
ExposurePaths(r) ==
  { p \in {"air", "water", "land", "disposal", "recycling"} :
      (CASE p = "air"       -> r.rel_air
         [] p = "water"     -> r.rel_water
         [] p = "land"      -> r.rel_land
         [] p = "disposal"  -> r.rel_disposal
         [] p = "recycling" -> r.rel_recycling) > 0 }

PathAmount(r, p) ==
  CASE p = "air"       -> r.rel_air
    [] p = "water"     -> r.rel_water
    [] p = "land"      -> r.rel_land
    [] p = "disposal"  -> r.rel_disposal
    [] p = "recycling" -> r.rel_recycling

\* The use weight taken from the last set flag instead of the largest.
UseWeightLast(r) ==
  IF r.use_other_use = 1 THEN USE_WEIGHTS.other
  ELSE IF r.use_processed = 1 THEN USE_WEIGHTS.processed
  ELSE IF r.use_manufactured = 1 THEN USE_WEIGHTS.manufactured
  ELSE DefaultUseWeight

\* use_weight of a row: the largest weight among the set flags, else 0.4.
UseWeight(r) ==
  LET applied ==
        (IF r.use_manufactured = 1 THEN {USE_WEIGHTS.manufactured} ELSE {})
        \cup (IF r.use_processed = 1 THEN {USE_WEIGHTS.processed} ELSE {})
        \cup (IF r.use_other_use = 1 THEN {USE_WEIGHTS.other} ELSE {})
  IN  IF applied # {} THEN SetMax(applied) ELSE DefaultUseWeight

RECURSIVE SumOver(_, _, _)
\* Sum of f[x] over the set S.
SumOver(S, f, acc) ==
  IF S = {} THEN acc
  ELSE LET x == CHOOSE y \in S : TRUE IN SumOver(S \ {x}, f, acc + f[x])

\* Weighted exposure of one row (lines 264-267), in 1e-5 kg.
RowExposure(r) ==
  LET tox == ToxicityOf(r.chemical_name)
      uw  == UseWeight(r)
      paths == ExposurePaths(r)
  IN  SumOver(paths,
              [p \in paths |-> PathAmount(r, p) * tox * EXPOSURE_WEIGHTS[p] * uw],
              0)

IsHeavyMetal(r) ==
  \E metal \in HeavyMetals : IsSubstring(metal, NormalizeName(r.chemical_name))

\* The rows of a table with the given facility_id, in table order.
GroupRows(rows, fid) == SelectSeq(rows, LAMBDA r : r.facility_id = fid)

RECURSIVE SeqSum(_)
SeqSum(s) == IF s = <<>> THEN 0 ELSE Head(s) + SeqSum(Tail(s))

\* The group keys of df.groupby("facility_id"), ascending.
RECURSIVE SortedSeqOfSet(_)
SortedSeqOfSet(S) ==
  IF S = {} THEN <<>>
  ELSE <<SetMin(S)>> \o SortedSeqOfSet(S \ {SetMin(S)})
FacilityIds(rows) ==
  SortedSeqOfSet({ rows[i].facility_id : i \in 1..Len(rows) })

\* The dictionary appended to `facilities` for one group (lines 210-298).
FacilityAggregate(rows, fid) ==
  LET g == GroupRows(rows, fid)
      idx == 1..Len(g)
  IN  [ facility_id |-> fid,
        industry |-> g[1].industry,
        latitude |-> g[1].latitude,
        longitude |-> g[1].longitude,
        total_release_kg |-> SeqSum([i \in idx |-> g[i].total_release_kg]),
        n_chemicals |-> Cardinality({ g[i].chemical_id : i \in idx }),
        toxicity_weighted_exposure |-> SeqSum([i \in idx |-> RowExposure(g[i])]),
        proximity_multiplier |->
          calculate_proximity_risk(g[1].latitude, g[1].longitude),
        max_chemical_toxicity |->
          SetMax({0} \cup { ToxicityOf(g[i].chemical_name) : i \in idx }),
        carcinogen_count |->
          Cardinality({ i \in idx : ToxicityOf(g[i].chemical_name) >= 80 }),
        heavy_metal_kg |->
          SeqSum([i \in idx |->
                    IF IsHeavyMetal(g[i]) THEN g[i].total_release_kg ELSE 0]) ]

\* The list `facilities` after the loop over the groups (lines 210-298).
RECURSIVE FacilityAggregates(_, _)
FacilityAggregates(rows, ids) ==
  IF ids = <<>> THEN <<>>
  ELSE <<FacilityAggregate(rows, Head(ids))>>
         \o FacilityAggregates(rows, Tail(ids))

\* The carcinogen bonus applied to every facility, whatever its count.
CarcinogenBonusAlways(risk, carcinogen_count) == (risk * 115) \div 100

\* fac.loc[fac["carcinogen_count"] >= 2, "risk_score"] *= 1.15
CarcinogenBonus(risk, carcinogen_count) ==
  IF carcinogen_count >= 2 THEN (risk * 115) \div 100 ELSE risk

\* The composite with the proximity multiplier left out.
RawRiskNoProximity(base_risk, multiplier, carcinogen_count) ==
  CarcinogenBonus(base_risk, carcinogen_count)

\* risk_score before rescaling (lines 327-330), in 1e-3.
RawRisk(base_risk, multiplier, carcinogen_count) ==
  CarcinogenBonus((base_risk * multiplier) \div 1000, carcinogen_count)

\* Number of 1e-9 in the unit of the raw risk (1e-3).
RawRiskUnit == 1000000

\* The facility table computed by run_risk_model from the clean rows.
RiskModel(rows) ==
  LET ids == FacilityIds(rows)
      n   == Len(ids)
      agg == FacilityAggregates(rows, ids)
      log_release == [i \in 1..n |-> Log1p(agg[i].total_release_kg, 1)]
      log_toxicity_exposure ==
        [i \in 1..n |-> Log1p(agg[i].toxicity_weighted_exposure, 100000)]
      log_heavy_metals == [i \in 1..n |-> Log1p(agg[i].heavy_metal_kg, 1)]
      max_tox == [i \in 1..n |-> agg[i].max_chemical_toxicity]
      s0 == RobustScale(log_toxicity_exposure, 10000)
      s1 == RobustScale(log_release, 10000)
      s2 == RobustScale(max_tox, 1)
      s3 == RobustScale(log_heavy_metals, 10000)
      base_risk ==
        [i \in 1..n |->
           (40 * s0[i] + 25 * s1[i] + 20 * s2[i] + 15 * s3[i]) \div 100]
      raw == [i \in 1..n |->
                RawRisk(base_risk[i], agg[i].proximity_multiplier,
                        agg[i].carcinogen_count)]
      scaled == MinMaxScale(raw, RawRiskUnit)
  IN  [i \in 1..n |->
         [ facility_id |-> agg[i].facility_id,
           industry |-> agg[i].industry,
           latitude |-> agg[i].latitude,
           longitude |-> agg[i].longitude,
           total_release_kg |-> agg[i].total_release_kg,
           n_chemicals |-> agg[i].n_chemicals,
           toxicity_weighted_exposure |-> agg[i].toxicity_weighted_exposure,
           proximity_multiplier |-> agg[i].proximity_multiplier,
           max_chemical_toxicity |-> agg[i].max_chemical_toxicity,
           carcinogen_count |-> agg[i].carcinogen_count,
           heavy_metal_kg |-> agg[i].heavy_metal_kg,
           log_release |-> log_release[i],
           log_toxicity_exposure |-> log_toxicity_exposure[i],
           log_heavy_metals |-> log_heavy_metals[i],
           base_risk |-> base_risk[i],
           risk_score |-> scaled[i] ]]

---------------------------------------------------------------------------
(* ENSEMBLE ANOMALY DETECTION                                              *)
(*                                                                         *)
(* IsolationForest is library code.  fit_predict marks the samples whose   *)
(* score is strictly below the contamination percentile of all scores, so  *)
(* of n samples at most ceil(contamination * (n-1)) are marked; which ones *)
(* depends on the feature values and is left open here.  With one or two   *)
(* samples every tree isolates each sample at the same depth, the scores   *)
(* tie and no sample is marked.  The features that only feed the forests   *)
(* (the standardized matrix X_scaled, industry_norm_release) are therefore *)
(* not carried in the tables.                                              *)

\* contamination of the global forest and of the per-industry forests, in
\* hundredths.
GlobalContamination == 6
IndustryContamination == 15

\* The sets of samples fit_predict can mark as -1 among the samples S.
IsoOutcomes(S, contamination) ==
  IF Cardinality(S) <= 2 THEN { {} }
  ELSE { T \in SUBSET S :
           Cardinality(T) <= CeilDiv(contamination * (Cardinality(S) - 1), 100) }

\* df["industry"].unique(): distinct values in order of first appearance
\* (NaN included).
RECURSIVE UniqueFrom(_, _, _)
UniqueFrom(s, i, acc) ==
  IF i > Len(s) THEN acc
  ELSE IF \E j \in 1..Len(acc) : acc[j] = s[i] THEN UniqueFrom(s, i + 1, acc)
  ELSE UniqueFrom(s, i + 1, Append(acc, s[i]))
Unique(s) == UniqueFrom(s, 1, <<>>)

\* mask = df["industry"] == industry: the rows whose industry equals the
\* value; NaN equals nothing.
IndustryMask(fac, industry) ==
  { i \in 1..Len(fac) : fac[i].industry # NaN /\ fac[i].industry = industry }

\* The rows of every industry that gets its own forest (3 or more rows).
ForestGroups(fac) ==
  { IndustryMask(fac, fac[i].industry) : i \in 1..Len(fac) }
    \ { S \in SUBSET (1..Len(fac)) : Cardinality(S) < 3 }

\* Possible results of the per-industry forests: H is the set of rows marked
\* -1 by the forest of their own industry.
IndustryOutcomes(fac) ==
  { H \in SUBSET (1..Len(fac)) :
      /\ \A i \in H : Cardinality(IndustryMask(fac, fac[i].industry)) >= 3
      /\ \A S \in ForestGroups(fac) :
           (H \cap S) \in IsoOutcomes(S, IndustryContamination) }

\* industry_anomalies.extend(...) for one industry: one entry per row of the
\* mask, in row order.
GroupVotes(mask, H) ==
  LET rows == SortedSeqOfSet(mask)
  IN  IF Cardinality(mask) < 3 THEN [k \in 1..Len(rows) |-> 0]
      ELSE [k \in 1..Len(rows) |-> IF rows[k] \in H THEN 1 ELSE 0]

\* The list industry_anomalies after the loop over df["industry"].unique()
\* (lines 380-391).
RECURSIVE IndustryAnomaliesFrom(_, _, _, _)
IndustryAnomaliesFrom(fac, industries, k, H) ==
  IF k > Len(industries) THEN <<>>
  ELSE GroupVotes(IndustryMask(fac, industries[k]), H)
         \o IndustryAnomaliesFrom(fac, industries, k + 1, H)

IndustryAnomalies(fac, H) ==
  IndustryAnomaliesFrom(fac, Unique([i \in 1..Len(fac) |-> fac[i].industry]),
                        1, H)

\* 100 * np.percentile(df["risk_score"], 95) (linear interpolation).
Percentile95x100(x) ==
  LET sorted == SortAscending(x)
      pos == 95 * (Len(x) - 1)
      f   == pos \div 100
      r   == pos % 100
  IN  IF r = 0 THEN 100 * sorted[f + 1]
      ELSE 100 * sorted[f + 1] + r * (sorted[f + 2] - sorted[f + 1])

\* A score below the percentile counts as extreme.
IsExtremeLow(score100, p95) == score100 < p95

\* df["risk_score"] > np.percentile(df["risk_score"], 95), both times 100.
IsExtreme(score100, p95) == score100 > p95

\* A single agreeing method is enough.
IsAnomalousAny(anomaly_votes) == anomaly_votes >= 1

\* df["anomaly"] = anomaly_votes >= 2
IsAnomalous(anomaly_votes) == anomaly_votes >= 2

\* (anomaly_votes / 4.0 * 100).round(1), in percent.
AnomalyConfidence(anomaly_votes) == (anomaly_votes * 100) \div 4

\* The four vote vectors (lines 377-401) for forests' results G (global) and
\* H (per industry).
Signals(fac, G, H) ==
  LET n == Len(fac)
      p95 == Percentile95x100([i \in 1..n |-> fac[i].risk_score])
  IN  [ iso      |-> [i \in 1..n |-> IF i \in G THEN 1 ELSE 0],
        industry |-> IndustryAnomalies(fac, H),
        extreme  |-> [i \in 1..n |->
                        IF IsExtreme(100 * fac[i].risk_score, p95)
                        THEN 1 ELSE 0],
        combo    |-> [i \in 1..n |->
                        IF fac[i].carcinogen_count >= 2
                           /\ fac[i].proximity_multiplier > 1300
                        THEN 1 ELSE 0] ]

\* The element-wise sum of the four vectors follows array broadcasting: the
\* industry vector must have one entry per row, or exactly one entry (which
\* is then used for every row); any other length raises ValueError.
VotesAddable(fac, sig) ==
  Len(sig.industry) = Len(fac) \/ (Len(sig.industry) = 1 /\ Len(fac) >= 1)

IndustryVoteAt(sig, i) ==
  IF Len(sig.industry) = 1 THEN sig.industry[1] ELSE sig.industry[i]

AnomalyVotes(sig, i) ==
  sig.iso[i] + IndustryVoteAt(sig, i) + sig.extreme[i] + sig.combo[i]

\* The table written by run_anomaly_detection.
AnomalyTable(fac, sig) ==
  [i \in 1..Len(fac) |->
     [ facility_id |-> fac[i].facility_id,
       industry |-> fac[i].industry,
       latitude |-> fac[i].latitude,
       longitude |-> fac[i].longitude,
       total_release_kg |-> fac[i].total_release_kg,
       n_chemicals |-> fac[i].n_chemicals,
       toxicity_weighted_exposure |-> fac[i].toxicity_weighted_exposure,
       proximity_multiplier |-> fac[i].proximity_multiplier,
       max_chemical_toxicity |-> fac[i].max_chemical_toxicity,
       carcinogen_count |-> fac[i].carcinogen_count,
       heavy_metal_kg |-> fac[i].heavy_metal_kg,
       log_release |-> fac[i].log_release,
       log_toxicity_exposure |-> fac[i].log_toxicity_exposure,
       log_heavy_metals |-> fac[i].log_heavy_metals,
       base_risk |-> fac[i].base_risk,
       risk_score |-> fac[i].risk_score,
       anomaly |-> IsAnomalous(AnomalyVotes(sig, i)),
       anomaly_confidence |-> AnomalyConfidence(AnomalyVotes(sig, i)) ]]

---------------------------------------------------------------------------
(* PIPELINE STAGES                                                         *)
(*                                                                         *)
(* A stage maps the files on disk (and the exception state) to the files   *)
(* after it ran.  A stage that raises leaves the files as they were when   *)
(* it raised and records the exception.  The program is single-threaded:   *)
(* an entry point runs its stages one after the other, and no other entry  *)
(* point is called before it has returned or raised.                       *)

Disk ==
  [ rows_clean |-> rows_clean, fac_risk |-> fac_risk, fac_anom |-> fac_anom,
    facilities_json |-> facilities_json, map_html |-> map_html,
    error |-> error, signals |-> signals, fitted |-> fitted ]

FileNotFound(artifact) == [type |-> "FileNotFoundError", artifact |-> artifact]
ValueError == [type |-> "ValueError", artifact |-> "none"]

\* A cell of a numeric column of the raw CSV: a number, or text that is not
\* one.
Num(v) == [numeric |-> TRUE, value |-> v]
NonNumeric == [numeric |-> FALSE, value |-> 0]

\* pd.to_numeric(errors="coerce").fillna(0): a non-numeric cell becomes 0.
ToNumeric(cell) == IF cell.numeric THEN cell.value ELSE 0

\* run_cleaning on the rows of the raw CSV (lines 183-194).
CleanRow(r) ==
  LET air       == ToNumeric(r.rel_air)
      land      == ToNumeric(r.rel_land)
      water     == ToNumeric(r.rel_water)
      disposal  == ToNumeric(r.rel_disposal)
      recycling == ToNumeric(r.rel_recycling)
  IN  [ facility_id |-> r.facility_id,
        industry |-> r.industry,
        latitude |-> ToNumeric(r.latitude),
        longitude |-> ToNumeric(r.longitude),
        chemical_id |-> r.chemical_id,
        chemical_name |-> r.chemical_name,
        use_manufactured |-> r.use_manufactured,
        use_processed |-> r.use_processed,
        use_other_use |-> r.use_other_use,
        rel_air |-> air, rel_land |-> land, rel_water |-> water,
        rel_disposal |-> disposal, rel_recycling |-> recycling,
        total_release_kg |-> air + land + water + disposal + recycling ]

run_cleaning(d) ==
  IF ~raw_csv.exists
  THEN [d EXCEPT !.error = FileNotFound("Chemtrac-Data-2024.csv")]
  ELSE [d EXCEPT !.rows_clean =
          File([i \in 1..Len(raw_csv.data) |-> CleanRow(raw_csv.data[i])])]

\* A run_risk_model that creates its output file before it reads its input.
run_risk_model_partial(d) ==
  IF ~d.rows_clean.exists
  THEN [d EXCEPT !.fac_risk = File(<<>>),
                 !.error = FileNotFound("chemtrac_rows_clean.csv")]
  ELSE [d EXCEPT !.fac_risk = File(RiskModel(d.rows_clean.data))]

run_risk_model(d) ==
  IF ~d.rows_clean.exists
  THEN [d EXCEPT !.error = FileNotFound("chemtrac_rows_clean.csv")]
  ELSE [d EXCEPT !.fac_risk = File(RiskModel(d.rows_clean.data))]

\* Forests without a fixed seed: every fit is a fresh draw.
Unseeded(fits, table, G, H) == TRUE

\* The forests are built with random_state=42 (lines 373 and 389): fitted
\* again on a table they return what they returned for it before.
Seeded(fits, table, G, H) ==
  table \in DOMAIN fits => fits[table] = [global |-> G, industry |-> H]

\* The fits after the forests returned G and H for the table.
Fit(fits, table, G, H) ==
  [t \in DOMAIN fits \cup {table} |->
     IF t = table THEN [global |-> G, industry |-> H] ELSE fits[t]]

\* run_anomaly_detection when the forests return G and H.
run_anomaly_detection(d, G, H) ==
  IF ~d.fac_risk.exists
  THEN [d EXCEPT !.error = FileNotFound("facilities_with_risk.csv")]
  ELSE LET sig == Signals(d.fac_risk.data, G, H)
           fits == Fit(d.fitted, d.fac_risk.data, G, H)
       IN  IF ~VotesAddable(d.fac_risk.data, sig)
           THEN [d EXCEPT !.error = ValueError, !.signals = sig,
                          !.fitted = fits]
           ELSE [d EXCEPT !.fac_anom =
                            File(AnomalyTable(d.fac_risk.data, sig)),
                          !.signals = sig, !.fitted = fits]

\* The forests' possible results for the table on disk.
GlobalChoices(d) ==
  IF d.fac_risk.exists
  THEN IsoOutcomes(1..Len(d.fac_risk.data), GlobalContamination) ELSE { {} }
IndustryChoices(d) ==
  IF d.fac_risk.exists THEN IndustryOutcomes(d.fac_risk.data) ELSE { {} }

---------------------------------------------------------------------------
(* FINAL WEB JSON, the ingest script and the map                           *)

\* A JSON value that may be null.
None == <<>>
Some(v) == <<v>>

\* round(x, 2) of a value in 1e-3, in 1e-2 (halves go to the even neighbour).
Round2(x) ==
  LET q == x \div 10
      r == x % 10
  IN  IF r < 5 THEN q ELSE IF r > 5 THEN q + 1
      ELSE IF q % 2 = 0 THEN q ELSE q + 1

\* sorted(chemicals, key=amount_kg, reverse=True): descending and stable.
RECURSIVE InsertByAmount(_, _)
InsertByAmount(s, c) ==
  IF s = <<>> THEN <<c>>
  ELSE IF c.amount_kg >= Head(s).amount_kg THEN <<c>> \o s
  ELSE <<Head(s)>> \o InsertByAmount(Tail(s), c)
RECURSIVE SortByAmountDesc(_)
SortByAmountDesc(s) ==
  IF s = <<>> THEN <<>>
  ELSE InsertByAmount(SortByAmountDesc(Tail(s)), Head(s))

\* risk_map.get(fid, {}): the row of the facility table with that id, if any.
RiskRows(fac, fid) == SelectSeq(fac, LAMBDA f : f.facility_id = fid)

\* One record of facilities.json as written by export_web_json.
WebFacility(rows, fac, fid) ==
  LET g == GroupRows(rows, fid)
      found == RiskRows(fac, fid)
      has == found # <<>>
  IN  [ id |-> fid,
        industry |-> g[1].industry,
        latitude |-> g[1].latitude,
        longitude |-> g[1].longitude,
        total_release_kg |->
          SeqSum([i \in 1..Len(g) |-> g[i].total_release_kg]),
        risk_score |-> IF has THEN Some(found[1].risk_score) ELSE None,
        anomaly |-> IF has THEN found[1].anomaly ELSE FALSE,
        anomaly_confidence |-> IF has THEN found[1].anomaly_confidence ELSE 0,
        proximity_risk |->
          IF has THEN Round2(found[1].proximity_multiplier) ELSE 100,
        carcinogen_count |-> IF has THEN found[1].carcinogen_count ELSE 0,
        chemicals |->
          SortByAmountDesc(
            [i \in 1..Len(g) |->
               [ name |-> g[i].chemical_name,
                 amount_kg |-> g[i].total_release_kg,
                 toxicity_score |-> ToxicityOf(g[i].chemical_name) ]]) ]

export_web_json(d) ==
  IF ~d.rows_clean.exists
  THEN [d EXCEPT !.error = FileNotFound("chemtrac_rows_clean.csv")]
  ELSE IF ~d.fac_anom.exists
  THEN [d EXCEPT !.error =
          FileNotFound("facilities_with_risk_and_anomaly.csv")]
  ELSE LET rows == d.rows_clean.data
           ids  == FacilityIds(rows)
       IN  [d EXCEPT !.facilities_json =
              File([i \in 1..Len(ids) |->
                      WebFacility(rows, d.fac_anom.data, ids[i])])]

\* One record of facilities.json as written by ingest_chemtrac.run.
IngestFacility(rows, fid) ==
  LET g == GroupRows(rows, fid)
  IN  [ id |-> fid,
        industry |-> g[1].industry,
        latitude |-> g[1].latitude,
        longitude |-> g[1].longitude,
        total_release_kg |->
          SeqSum([i \in 1..Len(g) |-> g[i].total_release_kg]),
        chemicals |->
          [i \in 1..Len(g) |->
             [ name |-> Strip(g[i].chemical_name),
               amount_kg |-> g[i].total_release_kg ]],
        risk_score |-> None,
        anomaly |-> FALSE ]

ingest_run(d) ==
  IF ~raw_csv.exists
  THEN [d EXCEPT !.error = FileNotFound("Chemtrac-Data-2024.csv")]
  ELSE LET rows == [i \in 1..Len(raw_csv.data) |-> CleanRow(raw_csv.data[i])]
           ids  == FacilityIds(rows)
       IN  [d EXCEPT !.facilities_json =
              File([i \in 1..Len(ids) |-> IngestFacility(rows, ids[i])])]

\* risk_color of build_map; score in 1e-2 or None.
risk_color(score) ==
  IF score = None THEN "gray"
  ELSE IF score[1] >= 8000 THEN "darkred"
  ELSE IF score[1] >= 6000 THEN "red"
  ELSE IF score[1] >= 4000 THEN "orange"
  ELSE IF score[1] >= 2000 THEN "lightgreen"
  ELSE "green"

\* The circle marker build_map draws for one record of facilities.json.
Marker(f) ==
  [ id |-> f.id,
    latitude |-> f.latitude,
    longitude |-> f.longitude,
    score |-> f.risk_score,
    is_anom |-> f.anomaly,
    radius |-> 600 + ((IF f.risk_score = None THEN 0 ELSE f.risk_score[1])
                        \div 15),
    color |-> IF f.anomaly THEN "black" ELSE risk_color(f.risk_score),
    fill_color |-> risk_color(f.risk_score) ]

build_map(d) ==
  IF ~d.facilities_json.exists
  THEN [d EXCEPT !.error = FileNotFound("facilities.json")]
  ELSE [d EXCEPT !.map_html =
          File([i \in 1..Len(d.facilities_json.data) |->
                  Marker(d.facilities_json.data[i])])]

Ok(d) == d.error = NoError

---------------------------------------------------------------------------
(* Raw disclosure tables                                                   *)

\* Largest number of facilities in a raw table.
MaxFacilities == 2

Mercury == <<"m","e","r","c","u","r","y">>
Acetone == <<"a","c","e","t","o","n","e">>
BenzeneReported == <<"B","e","n","z","e","n","e"," ">>
LeadReported == <<"L","E","A","D"," ","(","a","n","d"," ","i","t","s"," ",
                  "c","o","m","p","o","u","n","d","s",")">>
Zinc == <<"z","i","n","c">>

\* Chemical rows as they stand in the raw CSV.
RowMercury ==
  [ chemical_id |-> 1, chemical_name |-> Mercury,
    use_manufactured |-> 1, use_processed |-> 0, use_other_use |-> 0,
    rel_air |-> Num(10000), rel_water |-> Num(0), rel_land |-> Num(0),
    rel_disposal |-> Num(0), rel_recycling |-> Num(0) ]
RowAcetone ==
  [ chemical_id |-> 2, chemical_name |-> Acetone,
    use_manufactured |-> 0, use_processed |-> 0, use_other_use |-> 1,
    rel_air |-> Num(0), rel_water |-> Num(0), rel_land |-> Num(0),
    rel_disposal |-> Num(0), rel_recycling |-> Num(10) ]
RowBenzene ==
  [ chemical_id |-> 3, chemical_name |-> BenzeneReported,
    use_manufactured |-> 0, use_processed |-> 1, use_other_use |-> 1,
    rel_air |-> Num(500), rel_water |-> Num(100), rel_land |-> NonNumeric,
    rel_disposal |-> Num(0), rel_recycling |-> Num(0) ]
RowLead ==
  [ chemical_id |-> 4, chemical_name |-> LeadReported,
    use_manufactured |-> 1, use_processed |-> 1, use_other_use |-> 0,
    rel_air |-> Num(0), rel_water |-> Num(0), rel_land |-> Num(200),
    rel_disposal |-> Num(40), rel_recycling |-> Num(0) ]
RowZinc ==
  [ chemical_id |-> 5, chemical_name |-> Zinc,
    use_manufactured |-> 0, use_processed |-> 0, use_other_use |-> 0,
    rel_air |-> Num(0), rel_water |-> Num(0), rel_land |-> Num(0),
    rel_disposal |-> Num(50), rel_recycling |-> Num(0) ]

\* Hospital coordinates, a point 7 km south of the nearest sensitive
\* location, and a point 2.6 km north of the nearest one.
SiteTorontoGeneral == [lat |-> 436591, lon |-> -793879]
SiteSickKids == [lat |-> 436566, lon |-> -793900]
SiteFar == [lat |-> 435800, lon |-> -793900]
SiteMid == [lat |-> 436800, lon |-> -793900]

\* Kinds of facility: its coordinates, its industry and its chemical rows.
FacilityKinds ==
  << [kind |-> "A", site |-> SiteTorontoGeneral, industry |-> "Electroplating",
      rows |-> <<RowMercury>>],
     [kind |-> "A", site |-> SiteSickKids, industry |-> "Electroplating",
      rows |-> <<RowMercury>>],
     [kind |-> "B", site |-> SiteFar, industry |-> "Electroplating",
      rows |-> <<RowAcetone>>],
     [kind |-> "C", site |-> SiteSickKids, industry |-> "Paint",
      rows |-> <<RowBenzene, RowLead>>],
     [kind |-> "D", site |-> SiteMid, industry |-> NaN,
      rows |-> <<RowZinc>>] >>

\* The raw rows of facility number i of a table.
RawRows(i, k) ==
  [j \in 1..Len(k.rows) |->
     [ facility_id |-> 100 + i,
       industry |-> k.industry,
       latitude |-> Num(k.site.lat),
       longitude |-> Num(k.site.lon),
       chemical_id |-> k.rows[j].chemical_id,
       chemical_name |-> k.rows[j].chemical_name,
       use_manufactured |-> k.rows[j].use_manufactured,
       use_processed |-> k.rows[j].use_processed,
       use_other_use |-> k.rows[j].use_other_use,
       rel_air |-> k.rows[j].rel_air,
       rel_water |-> k.rows[j].rel_water,
       rel_land |-> k.rows[j].rel_land,
       rel_disposal |-> k.rows[j].rel_disposal,
       rel_recycling |-> k.rows[j].rel_recycling ]]

RECURSIVE RawTableFrom(_, _)
RawTableFrom(kinds, i) ==
  IF i > Len(kinds) THEN <<>>
  ELSE RawRows(i, FacilityKinds[kinds[i]]) \o RawTableFrom(kinds, i + 1)

\* The ways to line up at most n facilities of different kinds.
KindOrders(n) ==
  UNION { { f \in [1..k -> 1..Len(FacilityKinds)] :
              \A i, j \in 1..k : i # j => f[i] # f[j] } : k \in 1..n }

\* Tables of up to MaxFacilities facilities of different kinds, in the order
\* of FacilityKinds.
RawTables ==
  { RawTableFrom(ks, 1) :
      ks \in { f \in KindOrders(MaxFacilities) :
                 \A i \in 1..(Len(f) - 1) : f[i] < f[i + 1] } }

---------------------------------------------------------------------------
(* The pipeline: entry points and their stages                             *)

Init ==
  /\ pc = "pipeline"
  /\ raw_csv \in { File(t) : t \in RawTables }
  /\ rows_clean = Absent /\ fac_risk = Absent /\ fac_anom = Absent
  /\ facilities_json = Absent /\ map_html = Absent
  /\ error = NoError /\ call = NoCall /\ signals = NoSignals
  /\ fitted = NoFits
  /\ ToxIdle /\ ProxIdle /\ ScaleIdle
  /\ DecayIdle /\ AmplifyIdle

Idle == call.todo = <<>>

\* An entry point is called: it starts without a pending exception.
Invoke(name, stages) ==
  /\ Idle
  /\ call' = [name |-> name, todo |-> stages]
  /\ error' = NoError
  /\ UNCHANGED <<pc, raw_csv, fileVars, signals, fitted, toxVars, proxVars,
               scaleVars, decayVars,
               fac_base>>

InvokeRunCleaning == Invoke("run_cleaning", <<"run_cleaning">>)
InvokeRunRiskModel == Invoke("run_risk_model", <<"run_risk_model">>)
InvokeRunAnomalyDetection ==
  Invoke("run_anomaly_detection", <<"run_anomaly_detection">>)
InvokeExportWebJson == Invoke("export_web_json", <<"export_web_json">>)
InvokeBuildMap == Invoke("build_map", <<"build_map">>)

\* ingest_chemtrac.run(csv_path)
InvokeIngest == Invoke("ingest_run", <<"ingest_run">>)

\* run_all.main(): cleaning, risk model, anomaly detection, map.
MainStages ==
  <<"run_cleaning", "run_risk_model", "run_anomaly_detection", "build_map">>

InvokeMain == Invoke("main", MainStages)

\* run_pipeline.run_all(csv_path): cleaning, risk model, anomaly detection,
\* web JSON.
InvokeRunAll ==
  Invoke("run_all", <<"run_cleaning", "run_risk_model",
                      "run_anomaly_detection", "export_web_json">>)

Running(stage) == call.todo # <<>> /\ Head(call.todo) = stage

\* The running stage ended with the disk in state d: the call goes on with
\* its next stage, or ends here if the stage raised.
Finish(d) ==
  /\ rows_clean' = d.rows_clean
  /\ fac_risk' = d.fac_risk
  /\ fac_anom' = d.fac_anom
  /\ facilities_json' = d.facilities_json
  /\ map_html' = d.map_html
  /\ error' = d.error
  /\ signals' = d.signals
  /\ fitted' = d.fitted
  /\ call' = [call EXCEPT !.todo = IF Ok(d) THEN Tail(@) ELSE <<>>]
  /\ UNCHANGED <<pc, raw_csv, toxVars, proxVars, scaleVars, decayVars,
               fac_base>>

RunCleaning ==
  /\ Running("run_cleaning")
  /\ \E d \in { run_cleaning(Disk) } : Finish(d)

RunRiskModel ==
  /\ Running("run_risk_model")
  /\ \E d \in { run_risk_model(Disk) } : Finish(d)

RunAnomalyDetection ==
  /\ Running("run_anomaly_detection")
  /\ \E G \in GlobalChoices(Disk), H \in IndustryChoices(Disk) :
       /\ fac_risk.exists => Seeded(fitted, fac_risk.data, G, H)
       /\ \E d \in { run_anomaly_detection(Disk, G, H) } : Finish(d)

ExportWebJson ==
  /\ Running("export_web_json")
  /\ \E d \in { export_web_json(Disk) } : Finish(d)

BuildMap ==
  /\ Running("build_map")
  /\ \E d \in { build_map(Disk) } : Finish(d)

IngestRun ==
  /\ Running("ingest_run")
  /\ \E d \in { ingest_run(Disk) } : Finish(d)

Next ==
  \/ InvokeRunCleaning
  \/ InvokeRunRiskModel
  \/ InvokeRunAnomalyDetection
  \/ InvokeExportWebJson
  \/ InvokeBuildMap
  \/ InvokeIngest
  \/ InvokeMain
  \/ InvokeRunAll
  \/ RunCleaning
  \/ RunRiskModel
  \/ RunAnomalyDetection
  \/ ExportWebJson
  \/ BuildMap
  \/ IngestRun

Spec == Init /\ [][Next]_vars

---------------------------------------------------------------------------
(* Anomaly detection on the risk tables of larger populations              *)

\* Largest number of facilities in a table given to anomaly detection.
MaxAnomalyFacilities == 4

\* Raw tables of up to MaxAnomalyFacilities facilities in any row order.
AnomalyRawTables ==
  { RawTableFrom(ks, 1) : ks \in KindOrders(MaxAnomalyFacilities) }

\* The project after run_cleaning and run_risk_model have run on a raw table.
InitAnomaly ==
  /\ pc = "pipeline"
  /\ raw_csv \in { File(t) : t \in AnomalyRawTables }
  /\ rows_clean =
       File([i \in 1..Len(raw_csv.data) |-> CleanRow(raw_csv.data[i])])
  /\ fac_risk = File(RiskModel(rows_clean.data))
  /\ fac_anom = Absent /\ facilities_json = Absent /\ map_html = Absent
  /\ error = NoError /\ call = NoCall /\ signals = NoSignals
  /\ fitted = NoFits
  /\ ToxIdle /\ ProxIdle /\ ScaleIdle
  /\ DecayIdle /\ AmplifyIdle

NextAnomaly ==
  \/ InvokeRunAnomalyDetection
  \/ RunAnomalyDetection

SpecAnomaly == InitAnomaly /\ [][NextAnomaly]_vars

---------------------------------------------------------------------------
(* Properties of anomaly detection                                         *)

AnomalyRows == 1..Len(fac_anom.data)

\* C6: in the table written by run_anomaly_detection every facility's
\* anomaly_confidence is 25 times the number of its signals, hence one of
\* 0, 25, 50, 75, 100; its anomaly flag is set exactly when the confidence is
\* at least 50; a facility with exactly one signal is not flagged.
C6_MajorityVote ==
  fac_anom.exists =>
    \A i \in AnomalyRows :
      LET row == fac_anom.data[i]
          votes == AnomalyVotes(signals, i)
      IN  /\ row.anomaly_confidence = 25 * votes
          /\ row.anomaly_confidence \in {0, 25, 50, 75, 100}
          /\ row.anomaly <=> row.anomaly_confidence >= 50
          /\ votes = 1 => ~row.anomaly

\* A table with a flagged facility and a facility that has exactly one
\* signal.
C6_Witness ==
  /\ fac_anom.exists
  /\ \E i, j \in AnomalyRows :
       /\ fac_anom.data[i].anomaly
       /\ AnomalyVotes(signals, j) = 1
       /\ ~fac_anom.data[j].anomaly

\* The number of facilities of the table that share row i's industry.
IndustrySize(fac, i) == Cardinality(IndustryMask(fac, fac[i].industry))

\* C7: a facility whose industry has fewer than 3 facilities in the table
\* gets no vote from the per-industry signal.
C7_SmallIndustryNeverVoted ==
  fac_anom.exists =>
    \A i \in AnomalyRows :
      IndustrySize(fac_risk.data, i) < 3 => IndustryVoteAt(signals, i) = 0

---------------------------------------------------------------------------
(* Properties of the pipeline                                              *)

\* The raw table is facility A (mercury, at a hospital) followed by
\* facility B (acetone, 7 km from every sensitive location).
IsMercuryAcetoneTable ==
  /\ raw_csv.exists
  /\ \E a \in {1, 2} : raw_csv.data = RawTableFrom(<<a, 3>>, 1)

\* C8: with A and B as the whole population, A's risk_score is strictly
\* greater than B's, and A's anomaly votes are at least B's.
C8_MercuryOutranksAcetone ==
  IsMercuryAcetoneTable =>
    /\ fac_risk.exists =>
         fac_risk.data[1].risk_score > fac_risk.data[2].risk_score
    /\ fac_anom.exists =>
         AnomalyVotes(signals, 1) >= AnomalyVotes(signals, 2)

\* Both stages have run on the table of A and B.
C8_Witness ==
  /\ IsMercuryAcetoneTable
  /\ fac_risk.exists /\ fac_anom.exists
  /\ fac_risk.data[1].risk_score = 10000
  /\ fac_risk.data[2].risk_score = 0
  /\ fac_anom.data[1].anomaly_confidence = 25
  /\ fac_anom.data[2].anomaly_confidence = 0

\* The artifacts each stage reads, in the order it reads them.
StageInputs ==
  [ run_risk_model        |-> {"chemtrac_rows_clean.csv"},
    run_anomaly_detection |-> {"facilities_with_risk.csv"},
    export_web_json       |-> {"chemtrac_rows_clean.csv",
                               "facilities_with_risk_and_anomaly.csv"},
    build_map             |-> {"facilities.json"} ]

Exists(artifact) ==
  CASE artifact = "chemtrac_rows_clean.csv" -> rows_clean.exists
    [] artifact = "facilities_with_risk.csv" -> fac_risk.exists
    [] artifact = "facilities_with_risk_and_anomaly.csv" -> fac_anom.exists
    [] artifact = "facilities.json" -> facilities_json.exists

MissingInputs(stage) == { a \in StageInputs[stage] : ~Exists(a) }

\* C9: a stage that runs while one of its input artifacts is absent raises
\* FileNotFoundError naming an absent input, changes no artifact, and ends
\* the call.
C9_FailFast ==
  [][ \A stage \in DOMAIN StageInputs :
        (Running(stage) /\ MissingInputs(stage) # {})
          => /\ error'.type = "FileNotFoundError"
             /\ error'.artifact \in MissingInputs(stage)
             /\ UNCHANGED fileVars
             /\ call'.todo = <<>> ]_vars

\* export_web_json was run with the clean rows present and the anomaly table
\* absent.
C9_Witness ==
  /\ call.name = "export_web_json" /\ Idle
  /\ error = FileNotFound("facilities_with_risk_and_anomaly.csv")
  /\ rows_clean.exists /\ ~fac_anom.exists /\ ~facilities_json.exists

\* run_all.main has returned or raised.
MainEnded == call.name = "main" /\ Idle

\* Every marker of the map shows the score and the flag of its facility in
\* the anomaly table.
MapShows(fac) ==
  \A k \in 1..Len(map_html.data) :
    \E i \in 1..Len(fac) :
      /\ fac[i].facility_id = map_html.data[k].id
      /\ map_html.data[k].score = Some(fac[i].risk_score)
      /\ map_html.data[k].is_anom = fac[i].anomaly

\* C10: when run_all.main ends and its anomaly detection has written its
\* table, map.html exists and shows that table's scores and flags.
C10_MainMapsItsOwnResults ==
  (MainEnded /\ fac_anom.exists /\ error.type # "ValueError") =>
    /\ map_html.exists
    /\ Len(map_html.data) = Len(fac_anom.data)
    /\ MapShows(fac_anom.data)

---------------------------------------------------------------------------
(* Re-running the full pipeline                                            *)

\* Largest number of facilities in a table the pipeline is re-run on.
MaxRerunFacilities == 3

\* A fresh project with a raw table of up to MaxRerunFacilities facilities
\* in any row order.
InitRerun ==
  /\ pc = "pipeline"
  /\ raw_csv \in { File(RawTableFrom(ks, 1)) :
                     ks \in KindOrders(MaxRerunFacilities) }
  /\ rows_clean = Absent /\ fac_risk = Absent /\ fac_anom = Absent
  /\ facilities_json = Absent /\ map_html = Absent
  /\ error = NoError /\ call = NoCall /\ signals = NoSignals
  /\ fitted = NoFits
  /\ ToxIdle /\ ProxIdle /\ ScaleIdle
  /\ DecayIdle /\ AmplifyIdle

\* run_all(csv_path) is called again and again on the same raw table.
NextRerun ==
  \/ InvokeRunAll
  \/ RunCleaning
  \/ RunRiskModel
  \/ RunAnomalyDetection
  \/ ExportWebJson

SpecRerun == InitRerun /\ [][NextRerun]_vars

---------------------------------------------------------------------------
(* Toxicity-weighted exposure of one facility group                        *)

\* Largest number of rows in the facility group.
MaxGroupRows == 2

\* First rows: cadmium with every combination of pathway quantities and use
\* flags; the land quantity can be negative where the row total stays
\* positive (np.log1p of a total below -1 is NaN).
ExposureRows ==
  LET all ==
        { [ chemical_id |-> 6,
            chemical_name |-> <<"c","a","d","m","i","u","m">>,
            use_manufactured |-> um, use_processed |-> up,
            use_other_use |-> uo,
            rel_air |-> Num(air), rel_water |-> Num(water),
            rel_land |-> Num(land), rel_disposal |-> Num(disposal),
            rel_recycling |-> Num(recycling) ] :
            um \in {0, 1}, up \in {0, 1}, uo \in {0, 1},
            air \in {0, 3}, water \in {0, 20}, land \in {-2, 0, 100},
            disposal \in {0, 7}, recycling \in {0, 1000} }
  IN  { r \in all : r.rel_land.value >= 0 \/ r.rel_air.value > 0 }

\* Rows that follow the first one in a larger group.
FollowRows == {RowBenzene, RowZinc}

\* The raw tables of one facility at SiteMid with up to MaxGroupRows rows.
ExposureTables ==
  UNION { { RawRows(1, [site |-> SiteMid, industry |-> "Paint",
                        rows |-> <<first>> \o rest]) :
              first \in ExposureRows, rest \in [1..k -> FollowRows] } :
          k \in 0..(MaxGroupRows - 1) }

\* The project after run_cleaning has run on the raw table.
InitExposure ==
  /\ pc = "pipeline"
  /\ raw_csv \in { File(t) : t \in ExposureTables }
  /\ rows_clean =
       File([i \in 1..Len(raw_csv.data) |-> CleanRow(raw_csv.data[i])])
  /\ fac_risk = Absent /\ fac_anom = Absent
  /\ facilities_json = Absent /\ map_html = Absent
  /\ error = NoError /\ call = NoCall /\ signals = NoSignals
  /\ fitted = NoFits
  /\ ToxIdle /\ ProxIdle /\ ScaleIdle
  /\ DecayIdle /\ AmplifyIdle

NextExposure ==
  \/ InvokeRunRiskModel
  \/ RunRiskModel

SpecExposure == InitExposure /\ [][NextExposure]_vars

\* quantity x pathway weight, in hundredths of a kg, of the pathways of a
\* clean row with a positive quantity (air 1.0, water 0.95, land 0.7,
\* disposal 0.3, recycling 0.15).
WeightedQuantity(r) ==
    (IF r.rel_air > 0 THEN 100 * r.rel_air ELSE 0)
  + (IF r.rel_water > 0 THEN 95 * r.rel_water ELSE 0)
  + (IF r.rel_land > 0 THEN 70 * r.rel_land ELSE 0)
  + (IF r.rel_disposal > 0 THEN 30 * r.rel_disposal ELSE 0)
  + (IF r.rel_recycling > 0 THEN 15 * r.rel_recycling ELSE 0)

\* The largest weight among the set use flags (manufactured 1.0, processed
\* 0.8, other 0.5), 0.4 when none is set; in tenths.
LargestUseWeight(r) ==
  IF r.use_manufactured = 1 THEN 10
  ELSE IF r.use_processed = 1 THEN 8
  ELSE IF r.use_other_use = 1 THEN 5
  ELSE 4

\* C12: the facility's toxicity_weighted_exposure (in 1e-5 kg) is the sum
\* over its rows of quantity x toxicity x pathway weight x use weight over
\* the pathways with a positive quantity, and it is never negative.
C12_ExposureFormula ==
  fac_risk.exists =>
    LET rows == rows_clean.data IN
      /\ fac_risk.data[1].toxicity_weighted_exposure =
           SeqSum([i \in 1..Len(rows) |->
                     WeightedQuantity(rows[i])
                       * ToxicityOf(rows[i].chemical_name)
                       * LargestUseWeight(rows[i])])
      /\ fac_risk.data[1].toxicity_weighted_exposure >= 0

\* The exposure of a group of two rows whose first row has two use flags
\* set, two positive pathways and a negative quantity.
C12_Witness ==
  /\ fac_risk.exists
  /\ Len(rows_clean.data) = 2
  /\ rows_clean.data[1].use_processed = 1
  /\ rows_clean.data[1].use_other_use = 1
  /\ rows_clean.data[1].use_manufactured = 0
  /\ rows_clean.data[1].rel_air > 0 /\ rows_clean.data[1].rel_water > 0
  /\ rows_clean.data[1].rel_land < 0
  /\ fac_risk.data[1].toxicity_weighted_exposure > 0

---------------------------------------------------------------------------
(* Distance decay of one sensitive location                                *)

\* Largest distance considered, in km.
MaxDistanceKm == 6

\* The weights of the sensitive locations, in tenths.
LocationWeights ==
  { SENSITIVE_LOCATIONS[i].weight : i \in LocationIndices }

\* Distances in metres: every half kilometre up to MaxDistanceKm, and the
\* metre before and after each.
Distances ==
  { d \in { 500 * k + e : k \in 0..(2 * MaxDistanceKm), e \in {-1, 0, 1} } :
      d >= 0 }

\* Two points, the first at most as far from the location as the second.
InitDecay ==
  /\ pc = "decay_input"
  /\ loc_weight \in LocationWeights
  /\ loc_dist \in { <<d1, d2>> : d1 \in Distances, d2 \in Distances }
  /\ loc_dist[1] <= loc_dist[2]
  /\ loc_contribution = <<>>
  /\ AmplifyIdle /\ ToxIdle /\ ProxIdle /\ ScaleIdle /\ PipeIdle

\* calculate_proximity_risk lines 146-151 for each of the two points.
ComputeContributions ==
  /\ pc = "decay_input"
  /\ loc_contribution' =
       << RiskContribution(loc_weight, loc_dist[1]),
          RiskContribution(loc_weight, loc_dist[2]) >>
  /\ pc' = "decay_done"
  /\ UNCHANGED <<loc_weight, loc_dist, fac_base, toxVars, proxVars,
                 scaleVars, pipeVars>>

NextDecay == ComputeContributions

SpecDecay == InitDecay /\ [][NextDecay]_vars

\* C13: the contribution does not increase with distance: the nearer of
\* two points gets at least the contribution of the farther one.
C13_DecayIsMonotone ==
  pc = "decay_done" => loc_contribution[1] >= loc_contribution[2]

---------------------------------------------------------------------------
(* Multiplier and bonus applied to the base risk of a population           *)

\* Largest population whose base risks are enumerated.
MaxAmplified == 3

\* base_risk below, at and above the median (1e-3), a facility far from and
\* at a sensitive location, without and with two carcinogens.
BaseFacilities ==
  [ base_risk : {-1000, 0, 800},
    proximity_multiplier : {1000, 2200},
    carcinogen_count : {0, 2} ]

InitAmplify ==
  /\ pc = "amplify_input"
  /\ fac_base \in UNION { [1..n -> BaseFacilities] : n \in 2..MaxAmplified }
  /\ raw_risk = <<>> /\ risk_score = <<>>
  /\ DecayIdle /\ ToxIdle /\ ProxIdle /\ PipeIdle

\* run_risk_model lines 327-336 on the table.
ComputeRiskScore ==
  /\ pc = "amplify_input"
  /\ raw_risk' =
       [i \in 1..Len(fac_base) |->
          RawRisk(fac_base[i].base_risk, fac_base[i].proximity_multiplier,
                  fac_base[i].carcinogen_count)]
  /\ risk_score' = MinMaxScale(raw_risk', RawRiskUnit)
  /\ pc' = "amplify_done"
  /\ UNCHANGED <<fac_base, decayVars, toxVars, proxVars, pipeVars>>

NextAmplify == ComputeRiskScore

SpecAmplify == InitAmplify /\ [][NextAmplify]_vars

\* Facility i has the base risk of facility j and is amplified more: a
\* larger multiplier with the same bonus, or the bonus that j lacks with the
\* same multiplier.
MoreAmplified(i, j) ==
  /\ fac_base[i].base_risk = fac_base[j].base_risk
  /\ \/ /\ fac_base[i].proximity_multiplier > fac_base[j].proximity_multiplier
        /\ (fac_base[i].carcinogen_count >= 2)
             <=> (fac_base[j].carcinogen_count >= 2)
     \/ /\ fac_base[i].carcinogen_count >= 2
        /\ fac_base[j].carcinogen_count < 2
        /\ fac_base[i].proximity_multiplier = fac_base[j].proximity_multiplier

\* C14: of two facilities with equal base_risk the more amplified one never
\* ends with the lower risk_score.
C14_AmplifiersNeverLower ==
  pc = "amplify_done" =>
    \A i, j \in 1..Len(fac_base) :
      MoreAmplified(i, j) => risk_score[i] >= risk_score[j]

---------------------------------------------------------------------------
(* Reachability of the knowledge-base entries                              *)

\* C16: a chemical name that is exactly a key of CHEMICAL_TOXICITY resolves
\* to that key's own score.
C16_EveryKeyReachable ==
  pc = "tox_done" =>
    \A k \in 1..Len(CHEMICAL_TOXICITY) :
      chem_name = CHEMICAL_TOXICITY[k].key =>
        toxicity_score = CHEMICAL_TOXICITY[k].score

---------------------------------------------------------------------------
(* Size of the proximity boost                                             *)

\* C15: calculate_proximity_risk never returns a multiplier above 1.4.
C15_BoostAtMost40Percent ==
  pc = "prox_done" => proximity_multiplier <= 1400

---------------------------------------------------------------------------
(* Alignment of the per-industry votes with the rows                       *)

\* C17: after run_anomaly_detection has run on a table, the per-industry
\* vote vector has one entry per row of the table, and the entry at row i is
\* what the forest of facility i's own industry returned for facility i.
C17_IndustryVotesAligned ==
  (fac_risk.exists /\ fac_risk.data \in DOMAIN fitted) =>
    /\ Len(signals.industry) = Len(fac_risk.data)
    /\ \A i \in 1..Len(fac_risk.data) :
         (signals.industry[i] = 1)
           <=> (i \in fitted[fac_risk.data].industry)

====
